---- MODULE Spec2Model ----
(***************************************************************************)
(* Finance Tracker API (src/main.py): a Flask-RESTful service over three   *)
(* SQLAlchemy tables (user, token_blocklist, transaction) with JWT auth.   *)
(* Every HTTP handler is one action; the last request and its response are *)
(* kept in req / resp so that properties can speak about status codes.     *)
(***************************************************************************)
EXTENDS Integers, Sequences, FiniteSets

\* ------------------------------------------------------------------ bounds
MaxTime    == 1   \* hours the clock may advance
MaxTokens  == 2   \* access tokens ever issued
MaxUserSeq == 2   \* INSERTs into "user" ever attempted (sequence values)
MaxTxId    == 2   \* largest transaction id ever allocated

\* ------------------------------------------------------- program constants
JWT_ACCESS_TOKEN_EXPIRES == 1            \* timedelta(hours = 1)
DefaultPerPage           == 4            \* request.args.get("per_page", 4)
PaginateFallbackPerPage  == 20           \* db.paginate default when per_page < 1

\* ------------------------------------------------------------ input values
Opt(S) == {{}} \cup {{v} : v \in S}      \* a JSON key: absent, or present with a value
Val(o) == CHOOSE v \in o : TRUE

Emails     == {"a@x.com", "b@x.com"}
BadEmail   == "not-an-email"
Passwords  == {"pw", "other"}

today      == <<2025, 10>>               \* datetime.date.today(): <<year, month>>

VARIABLES
    dialect,    \* the database behind SQLALCHEMY_DATABASE_URI
    now,        \* wall clock, in hours
    users,      \* rows of table "user"
    userSeq,    \* postgresql: last value of the user_id sequence
    tokens,     \* access tokens issued so far (held by clients)
    blocklist,  \* rows of table "token_blocklist"
    txs,        \* rows of table "transaction"
    txSeq,      \* postgresql: last value of the transaction id sequence
    req,        \* the last request
    resp,       \* its response: [status, body]
    txsS,       \* second run (SpecNI): table "transaction" without the other users' writes
    txSeqS,     \* second run: its transaction id sequence
    respS       \* second run: the response to the last request

vars   == <<dialect, now, users, userSeq, tokens, blocklist, txs, txSeq, req, resp,
            txsS, txSeqS, respS>>
stores == <<users, userSeq, blocklist, txs, txSeq>>
second == <<txsS, txSeqS, respS>>

Max(S) == IF S = {} THEN 0 ELSE CHOOSE m \in S : \A x \in S : x <= m

NoToken == [jti |-> 0, sub |-> "", exp |-> 0]   \* no Authorization header

\* ------------------------------------------------------------ password hash
\* werkzeug: the hash is a salted digest, never the plaintext
generate_password_hash(pw) == [method |-> "pbkdf2:sha256", digestOf |-> pw]
check_password_hash(h, pw) == h.digestOf = pw

\* --------------------------------------------------------------- UserSchema
IsEmail(s) == s \in Emails                       \* validate.Email()

UserData(n, e, p) == [name |-> n, email |-> e, password |-> p]

\* request bodies sent to /register and /login
RegisterPayloads ==
    {UserData({"n"}, {e}, {"pw"}) : e \in Emails}
        \cup {UserData({"n"}, {BadEmail}, {"pw"}), UserData({}, {"a@x.com"}, {"pw"}),
              UserData({"n"}, {"b@x.com"}, {})}
LoginPayloads ==
    {UserData({}, {e}, {p}) : e \in Emails, p \in Passwords}
        \cup {UserData({}, {"a@x.com"}, {}), UserData({}, {BadEmail}, {"pw"})}

\* user_schema.validate(data, partial): the set of fields in error
user_schema_validate(data, partial) ==
    {f \in {"name", "email", "password"} \ partial : data[f] = {}}
        \cup {f \in {"email"} : data.email # {} /\ ~IsEmail(Val(data.email))}

\* user_schema.dump(user): password is load_only
user_schema_dump(u) ==
    [user_id |-> u.user_id, name |-> u.name, email |-> u.email]

UserByEmail(e) == {u \in users : u.email = e}

\* ------------------------------------------------------------------- tokens
\* check_if_token_revoked: a row of token_blocklist carries this jti
RevokedByIdentity(tok) ==
    \E r \in blocklist : \E t \in tokens : t.jti = r.jti /\ t.sub = tok.sub
RevokedOnlyByLastRow(tok) ==
    \E r \in blocklist : r.jti = tok.jti /\ \A o \in blocklist : o.id <= r.id
check_if_token_revoked(tok) == \E r \in blocklist : r.jti = tok.jti

\* @jwt_required(): header present, signature/expiry valid, not in the blocklist
JwtRequiredWithoutBlocklist(tok) ==
    /\ tok # NoToken
    /\ now < tok.exp
jwt_required(tok) ==
    /\ tok # NoToken
    /\ now < tok.exp
    /\ ~check_if_token_revoked(tok)

NoResponse   == [status |-> 0, body |-> [msg |-> "none"]]
Unauthorized == [status |-> 401, body |-> [msg |-> "unauthorized"]]

PresentedTokens == tokens \cup {NoToken}

\* ------------------------------------------------------------------ Init
Init ==
    /\ dialect \in {"sqlite", "postgresql"}
    /\ now = 0
    /\ users = {}
    /\ userSeq = 0
    /\ tokens = {}
    /\ blocklist = {}
    /\ txs = {}
    /\ txSeq = 0
    /\ req = [op |-> "none", tok |-> NoToken]
    /\ resp = NoResponse
    /\ txsS = {}
    /\ txSeqS = 0
    /\ respS = NoResponse

\* ------------------------------------------------------------- Register.post
NewUserId == IF dialect = "sqlite" THEN Max({u.user_id : u \in users}) + 1 ELSE userSeq + 1

Register(data) ==
    /\ req' = [op |-> "register", tok |-> NoToken, data |-> data]
    /\ UNCHANGED <<dialect, now, tokens, blocklist, txs, txSeq, second>>
    /\ LET errors == user_schema_validate(data, {}) IN
       IF errors # {}
       THEN /\ resp' = [status |-> 400, body |-> [errors |-> errors]]
            /\ UNCHANGED <<users, userSeq>>
       ELSE /\ dialect = "postgresql" => userSeq < MaxUserSeq
            /\ dialect = "sqlite" => NewUserId <= MaxUserSeq
            /\ userSeq' = IF dialect = "postgresql" THEN userSeq + 1 ELSE userSeq
            /\ LET new_user == [user_id    |-> NewUserId,
                                name       |-> Val(data.name),
                                email      |-> Val(data.email),
                                password   |-> generate_password_hash(Val(data.password))]
               IN IF UserByEmail(new_user.email) # {}
                  THEN \* unique = True on user.email: commit raises IntegrityError
                       /\ users' = users
                       /\ resp' = [status |-> 500, body |-> [msg |-> "Internal Server Error"]]
                  ELSE /\ users' = users \cup {new_user}
                       /\ resp' = [status |-> 201, body |-> user_schema_dump(new_user)]

\* ---------------------------------------------------------------- Login.post
create_access_token(identity) ==
    [jti |-> Cardinality(tokens) + 1, sub |-> identity, exp |-> now + JWT_ACCESS_TOKEN_EXPIRES]

Login(data) ==
    /\ req' = [op |-> "login", tok |-> NoToken, data |-> data]
    /\ UNCHANGED <<dialect, now, users, userSeq, blocklist, txs, txSeq, second>>
    /\ LET errors == user_schema_validate(data, {"name"}) IN
       IF errors # {}
       THEN /\ resp' = [status |-> 400, body |-> [errors |-> errors]]
            /\ UNCHANGED tokens
       ELSE IF \E u \in UserByEmail(Val(data.email)) :
                    check_password_hash(u.password, Val(data.password))
            THEN /\ Cardinality(tokens) < MaxTokens
                 /\ LET access_token == create_access_token(Val(data.email)) IN
                    /\ tokens' = tokens \cup {access_token}
                    /\ resp' = [status |-> 200, body |-> [access_token |-> access_token]]
            ELSE /\ resp' = [status |-> 401, body |-> [msg |-> "email or password doesn't exist"]]
                 /\ UNCHANGED tokens

\* --------------------------------------------------------------- Logout.post
Logout(tok) ==
    /\ req' = [op |-> "logout", tok |-> tok]
    /\ UNCHANGED <<dialect, now, users, userSeq, tokens, txs, txSeq, second>>
    /\ IF ~jwt_required(tok)
       THEN /\ resp' = Unauthorized
            /\ UNCHANGED blocklist
       ELSE /\ blocklist' = blocklist \cup
                    {[id |-> Max({r.id : r \in blocklist}) + 1, jti |-> tok.jti]}
            /\ resp' = [status |-> 200, body |-> [msg |-> "successfully logged out"]]

\* -------------------------------------------------------- TransactionSchema
\* a request body of /add_transaction or /edit_transaction; a date travels as an
\* ISO string, [str |-> <<year, month>>]
NoData == [amount |-> {}, type |-> {}, category |-> {}, date |-> {}, note |-> {},
           id |-> {}, user_id |-> {}]
TxData(a, t, c) == [NoData EXCEPT !.amount = a, !.type = t, !.category = c]

isoformat(d)       == [str |-> d]      \* fields.DateTime serialisation
CastTimestamp(s)   == s.str            \* the database parsing a string bound to a DateTime
\* SQLite's DateTime type accepts only datetime/date objects as bound values
BindsStrDate       == dialect = "postgresql"

\* transaction_schema.validate(data, partial): the set of fields in error
ValidateIgnoringRange(data, partial) ==
    {f \in {"amount", "type", "category"} : ~partial /\ data[f] = {}}
        \cup {f \in {"id", "user_id"} : data[f] # {}}
transaction_schema_validate(data, partial) ==
    {f \in {"amount", "type", "category"} : ~partial /\ data[f] = {}}
        \cup {f \in {"amount"} : data.amount # {} /\ Val(data.amount) < 1}
        \cup {f \in {"type"} : data.type # {} /\ Val(data.type) \notin {"income", "expense"}}
        \cup {f \in {"id", "user_id"} : data[f] # {}}      \* dump_only: unknown on load

transaction_schema_dump(t) ==
    [id |-> t.id, user_id |-> t.user_id, amount |-> t.amount, type |-> t.type,
     category |-> t.category, date |-> isoformat(t.date), note |-> t.note]

\* the authenticated user's row: select(User).where(User.email == get_jwt_identity())
CurrentUser(tok) == CHOOSE u \in users : u.email = tok.sub

Outcome(T, seq, r) == [txs |-> T, txSeq |-> seq, resp |-> r]
ServerError == [status |-> 500, body |-> [msg |-> "Internal Server Error"]]

\* --------------------------------------------------------- AddTransaction.post
NewTxId(T, seq) == IF dialect = "sqlite" THEN Max({t.id : t \in T}) + 1 ELSE seq + 1

add_transaction(T, seq, tok, data) ==
    IF ~jwt_required(tok) THEN Outcome(T, seq, Unauthorized)
    ELSE LET errors == transaction_schema_validate(data, FALSE) IN
    IF errors # {} THEN Outcome(T, seq, [status |-> 400, body |-> [errors |-> errors]])
    ELSE IF data.date # {} /\ ~BindsStrDate THEN Outcome(T, seq, ServerError)
    ELSE LET new_transaction ==
                 [id       |-> NewTxId(T, seq),
                  user_id  |-> CurrentUser(tok).user_id,
                  amount   |-> Val(data.amount),
                  type     |-> Val(data.type),
                  category |-> Val(data.category),
                  date     |-> IF data.date = {} THEN today ELSE CastTimestamp(Val(data.date)),
                  note     |-> IF data.note = {} THEN "NA" ELSE Val(data.note)]
         IN Outcome(T \cup {new_transaction},
                    IF dialect = "postgresql" THEN seq + 1 ELSE seq,
                    [status |-> 201, body |-> transaction_schema_dump(new_transaction)])

\* -------------------------------------------------------- EditTransaction.patch
\* select(Transaction).where(id == transaction_id, user_id == user.user_id)
FindById(T, id, uid) == {t \in T : t.id = id}
OwnedTransaction(T, id, uid) == {t \in T : t.id = id /\ t.user_id = uid}

\* for key, value in data.items(): setattr(transaction, key, value)
SetAttrsResettingNote(t, data) ==
    [t EXCEPT !.amount   = IF data.amount = {} THEN @ ELSE Val(data.amount),
              !.type     = IF data.type = {} THEN @ ELSE Val(data.type),
              !.category = IF data.category = {} THEN @ ELSE Val(data.category),
              !.date     = IF data.date = {} THEN @ ELSE CastTimestamp(Val(data.date)),
              !.note     = IF data.note = {} THEN "NA" ELSE Val(data.note)]
SetAttrs(t, data) ==
    [t EXCEPT !.amount   = IF data.amount = {} THEN @ ELSE Val(data.amount),
              !.type     = IF data.type = {} THEN @ ELSE Val(data.type),
              !.category = IF data.category = {} THEN @ ELSE Val(data.category),
              !.date     = IF data.date = {} THEN @ ELSE CastTimestamp(Val(data.date)),
              !.note     = IF data.note = {} THEN @ ELSE Val(data.note),
              !.id       = IF data.id = {} THEN @ ELSE Val(data.id),
              !.user_id  = IF data.user_id = {} THEN @ ELSE Val(data.user_id)]

\* the handler with the loop over data.items() and the commit moved above validation
EditValidatingLate(T, seq, tok, id, data) ==
    IF ~jwt_required(tok) THEN Outcome(T, seq, Unauthorized)
    ELSE LET errors == transaction_schema_validate(data, TRUE)
             found  == OwnedTransaction(T, id, CurrentUser(tok).user_id)
             clean  == [f \in DOMAIN data |-> IF f \in errors \/ f = "date" THEN {} ELSE data[f]]
             T2     == {IF t \in found THEN SetAttrs(t, clean) ELSE t : t \in T}
    IN IF errors # {} THEN Outcome(T2, seq, [status |-> 400, body |-> [errors |-> errors]])
       ELSE IF found = {}
            THEN Outcome(T, seq, [status |-> 404, body |-> [msg |-> "transaction not found"]])
       ELSE IF data.date # {} /\ ~BindsStrDate THEN Outcome(T, seq, ServerError)
       ELSE Outcome({IF t \in found THEN SetAttrs(t, data) ELSE t : t \in T}, seq,
                    [status |-> 200,
                     body   |-> transaction_schema_dump(SetAttrs(CHOOSE t \in found : TRUE, data))])

edit_transaction(T, seq, tok, id, data) ==
    IF ~jwt_required(tok) THEN Outcome(T, seq, Unauthorized)
    ELSE LET errors == transaction_schema_validate(data, TRUE) IN
    IF errors # {} THEN Outcome(T, seq, [status |-> 400, body |-> [errors |-> errors]])
    ELSE LET found == OwnedTransaction(T, id, CurrentUser(tok).user_id) IN
    IF found = {} THEN Outcome(T, seq, [status |-> 404, body |-> [msg |-> "transaction not found"]])
    ELSE IF data.date # {} /\ ~BindsStrDate THEN Outcome(T, seq, ServerError)
    ELSE LET transaction == CHOOSE t \in found : TRUE
             edited      == SetAttrs(transaction, data)
         IN Outcome((T \ {transaction}) \cup {edited}, seq,
                    [status |-> 200, body |-> transaction_schema_dump(edited)])

\* ------------------------------------------------------ DeleteTransaction.delete
delete_transaction(T, seq, tok, id) ==
    IF ~jwt_required(tok) THEN Outcome(T, seq, Unauthorized)
    ELSE LET found == OwnedTransaction(T, id, CurrentUser(tok).user_id) IN
    IF found = {} THEN Outcome(T, seq, [status |-> 404, body |-> [msg |-> "transaction not found"]])
    ELSE Outcome(T \ found, seq, [status |-> 200, body |-> [msg |-> "transaction deleted successfully"]])

\* ------------------------------------------------------------------ reports
RECURSIVE SumAmounts(_)
\* func.sum(Transaction.amount) over the selected rows (NULL, read as 0, when none)
SumAmounts(S) ==
    IF S = {} THEN 0
    ELSE LET t == CHOOSE x \in S : TRUE IN t.amount + SumAmounts(S \ {t})

\* extract("year", date) == year, extract("month", date) == month
InPeriod(t, year, month) == t.date[1] = year /\ t.date[2] = month

\* a query string of the reports: year and month, each optional
Period(year, month) == [year |-> year, month |-> month]
YearOf(q)  == IF q.year = {} THEN today[1] ELSE Val(q.year)
MonthOf(q) == IF q.month = {} THEN today[2] ELSE Val(q.month)

\* the rows one SUM of MonthlySummary.get selects
RowsOfAnyUser(T, uid, type, year, month) ==
    {t \in T : t.type = type /\ InPeriod(t, year, month)}
MonthlyRows(T, uid, type, year, month) ==
    {t \in T : t.user_id = uid /\ t.type = type /\ InPeriod(t, year, month)}

monthly_summary(T, tok, q) ==
    IF ~jwt_required(tok) THEN Unauthorized
    ELSE LET uid     == CurrentUser(tok).user_id
             income  == SumAmounts(MonthlyRows(T, uid, "income", YearOf(q), MonthOf(q)))
             expense == SumAmounts(MonthlyRows(T, uid, "expense", YearOf(q), MonthOf(q)))
         IN [status |-> 200,
             body   |-> [period  |-> <<YearOf(q), MonthOf(q)>>,
                         income  |-> income,
                         expense |-> expense,
                         balance |-> income - expense]]

\* GROUP BY category over the caller's rows of the period
\* the same selection narrowed to spending (type == "expense")
ExpenseRowsOnly(T, uid, year, month) ==
    {t \in T : t.user_id = uid /\ t.type = "expense" /\ InPeriod(t, year, month)}
BreakdownRows(T, uid, year, month) ==
    {t \in T : t.user_id = uid /\ InPeriod(t, year, month)}

category_breakdown(T, tok, q) ==
    IF ~jwt_required(tok) THEN Unauthorized
    ELSE LET rows == BreakdownRows(T, CurrentUser(tok).user_id, YearOf(q), MonthOf(q)) IN
         [status |-> 200,
          body   |-> [period    |-> <<YearOf(q), MonthOf(q)>>,
                      breakdown |-> {[category |-> c,
                                      total    |-> SumAmounts({t \in rows : t.category = c})]
                                     : c \in {t.category : t \in rows}}]]

\* ----------------------------------------------------------- GetTransactions.get
\* a query string: page, per_page, type, category, start_date, end_date, each optional
NoQuery == [page |-> {}, per_page |-> {}, type |-> {}, category |-> {},
            start_date |-> {}, end_date |-> {}]

DateLE(a, b) == a[1] < b[1] \/ (a[1] = b[1] /\ a[2] <= b[2])

\* the chain of .where() calls
SelectAllUsers(T, uid, q) ==
    {t \in T :
        /\ q.type = {} \/ t.type = Val(q.type)
        /\ q.category = {} \/ t.category = Val(q.category)
        /\ q.start_date = {} \/ DateLE(CastTimestamp(Val(q.start_date)), t.date)
        /\ q.end_date = {} \/ DateLE(t.date, CastTimestamp(Val(q.end_date)))}
SelectTransactions(T, uid, q) ==
    {t \in T :
        /\ t.user_id = uid
        /\ q.type = {} \/ t.type = Val(q.type)
        /\ q.category = {} \/ t.category = Val(q.category)
        /\ q.start_date = {} \/ DateLE(CastTimestamp(Val(q.start_date)), t.date)
        /\ q.end_date = {} \/ DateLE(t.date, CastTimestamp(Val(q.end_date)))}

RECURSIVE ById(_)
\* the rows in the order the table yields them without ORDER BY: by primary key
ById(S) ==
    IF S = {} THEN <<>>
    ELSE LET t == CHOOSE x \in S : \A y \in S : x.id <= y.id IN <<t>> \o ById(S \ {t})

\* db.paginate(query, page, per_page, error_out = False)
\* the same with the offset taken as page * per_page (pages counted from 0)
PaginateFromZero(rows, page, per_page) ==
    LET p     == IF page < 1 THEN 1 ELSE page
        n     == IF per_page < 1 THEN PaginateFallbackPerPage ELSE per_page
        total == Len(rows)
        first == p * n + 1
        last  == IF (p + 1) * n < total THEN (p + 1) * n ELSE total
    IN [items    |-> SubSeq(rows, first, last),
        total    |-> total,
        page     |-> p,
        pages    |-> IF total = 0 THEN 0 ELSE (total + n - 1) \div n,
        per_page |-> n]
Paginate(rows, page, per_page) ==
    LET p     == IF page < 1 THEN 1 ELSE page
        n     == IF per_page < 1 THEN PaginateFallbackPerPage ELSE per_page
        total == Len(rows)
        first == (p - 1) * n + 1
        last  == IF p * n < total THEN p * n ELSE total
    IN [items    |-> SubSeq(rows, first, last),
        total    |-> total,
        page     |-> p,
        pages    |-> IF total = 0 THEN 0 ELSE (total + n - 1) \div n,
        per_page |-> n]

get_transactions(T, tok, q) ==
    IF ~jwt_required(tok) THEN Unauthorized
    ELSE IF (q.start_date # {} \/ q.end_date # {}) /\ ~BindsStrDate THEN ServerError
    ELSE LET rows       == ById(SelectTransactions(T, CurrentUser(tok).user_id, q))
             pagination == Paginate(rows,
                                    IF q.page = {} THEN 1 ELSE Val(q.page),
                                    IF q.per_page = {} THEN DefaultPerPage ELSE Val(q.per_page))
         IN [status |-> 200,
             body   |-> [transactions |-> [i \in DOMAIN pagination.items |->
                                               transaction_schema_dump(pagination.items[i])],
                         total        |-> pagination.total,
                         page         |-> pagination.page,
                         pages        |-> pagination.pages,
                         per_page     |-> pagination.per_page]]

\* ------------------------------------------------- the protected endpoints
auth == <<dialect, now, users, userSeq, tokens, blocklist>>

AddTransactionStep(tok, data) ==
    LET o == add_transaction(txs, txSeq, tok, data) IN
    /\ \A t \in o.txs : t.id <= MaxTxId
    /\ req' = [op |-> "add_transaction", tok |-> tok, data |-> data]
    /\ txs' = o.txs /\ txSeq' = o.txSeq /\ resp' = o.resp
    /\ UNCHANGED auth

EditTransactionStep(tok, id, data) ==
    LET o == edit_transaction(txs, txSeq, tok, id, data) IN
    /\ req' = [op |-> "edit_transaction", tok |-> tok, id |-> id, data |-> data]
    /\ txs' = o.txs /\ txSeq' = o.txSeq /\ resp' = o.resp
    /\ UNCHANGED auth

DeleteTransactionStep(tok, id) ==
    LET o == delete_transaction(txs, txSeq, tok, id) IN
    /\ req' = [op |-> "delete_transaction", tok |-> tok, id |-> id]
    /\ txs' = o.txs /\ txSeq' = o.txSeq /\ resp' = o.resp
    /\ UNCHANGED auth

GetTransactionsStep(tok, q) ==
    /\ req' = [op |-> "get_transactions", tok |-> tok, q |-> q]
    /\ resp' = get_transactions(txs, tok, q)
    /\ UNCHANGED <<auth, txs, txSeq>>

MonthlySummaryStep(tok, q) ==
    /\ req' = [op |-> "report/monthly", tok |-> tok, q |-> q]
    /\ resp' = monthly_summary(txs, tok, q)
    /\ UNCHANGED <<auth, txs, txSeq>>

CategoryBreakdownStep(tok, q) ==
    /\ req' = [op |-> "report/category_breakdown", tok |-> tok, q |-> q]
    /\ resp' = category_breakdown(txs, tok, q)
    /\ UNCHANGED <<auth, txs, txSeq>>

AddTransaction(tok, data)      == AddTransactionStep(tok, data) /\ UNCHANGED second
EditTransaction(tok, id, data) == EditTransactionStep(tok, id, data) /\ UNCHANGED second
DeleteTransaction(tok, id)     == DeleteTransactionStep(tok, id) /\ UNCHANGED second
GetTransactions(tok, q)        == GetTransactionsStep(tok, q) /\ UNCHANGED second
MonthlySummary(tok, q)         == MonthlySummaryStep(tok, q) /\ UNCHANGED second
CategoryBreakdown(tok, q)      == CategoryBreakdownStep(tok, q) /\ UNCHANGED second

\* ------------------------------------------------------------ passage of time
Tick ==
    /\ now < MaxTime
    /\ now' = now + 1
    /\ UNCHANGED <<dialect, users, userSeq, tokens, blocklist, txs, txSeq, req, resp, second>>

\* ------------------------------------------------ Spec: every endpoint, from
\* an empty database, with one body per transaction endpoint
BaseAdd  == TxData({1}, {"income"}, {"food"})
BaseEdit == [NoData EXCEPT !.note = {"x"}]
TxIds    == 1..MaxTxId

Next ==
    \/ \E data \in RegisterPayloads : Register(data)
    \/ \E data \in LoginPayloads : Login(data)
    \/ \E tok \in PresentedTokens : Logout(tok)
    \/ \E tok \in PresentedTokens : AddTransaction(tok, BaseAdd)
    \/ \E tok \in PresentedTokens, id \in TxIds : EditTransaction(tok, id, BaseEdit)
    \/ \E tok \in PresentedTokens, id \in TxIds : DeleteTransaction(tok, id)
    \/ \E tok \in PresentedTokens : GetTransactions(tok, NoQuery)
    \/ \E tok \in PresentedTokens : MonthlySummary(tok, Period({}, {}))
    \/ \E tok \in PresentedTokens : CategoryBreakdown(tok, Period({}, {}))
    \/ Tick

Spec == Init /\ [][Next]_vars

\* ---------------------------------------- the other specifications start where
\* both users have registered and logged in (a state Spec reaches)
UserA == [user_id |-> 1, name |-> "n", email |-> "a@x.com",
          password |-> generate_password_hash("pw")]
UserB == [user_id |-> 2, name |-> "n", email |-> "b@x.com",
          password |-> generate_password_hash("pw")]
TokenA == [jti |-> 1, sub |-> "a@x.com", exp |-> JWT_ACCESS_TOKEN_EXPIRES]
TokenB == [jti |-> 2, sub |-> "b@x.com", exp |-> JWT_ACCESS_TOKEN_EXPIRES]

LoggedIn ==
    /\ dialect \in {"sqlite", "postgresql"}
    /\ now = 0
    /\ users = {UserA, UserB}
    /\ userSeq = IF dialect = "postgresql" THEN 2 ELSE 0
    /\ tokens = {TokenA, TokenB}
    /\ blocklist = {}
    /\ txs = {}
    /\ txSeq = 0
    /\ req = [op |-> "login", tok |-> NoToken, data |-> UserData({}, {"b@x.com"}, {"pw"})]
    /\ resp = [status |-> 200, body |-> [access_token |-> TokenB]]
    /\ txsS = {}
    /\ txSeqS = 0
    /\ respS = NoResponse

\* --------------------------------- SpecToken: the life of one user's tokens
\* Both users have registered and nobody has logged in (a state Spec reaches).
\* The first user logs in and out; every protected endpoint is called with
\* every issued token and with none, on a table that holds at most that
\* user's rows.
Registered ==
    /\ dialect \in {"sqlite", "postgresql"}
    /\ now = 0
    /\ users = {UserA, UserB}
    /\ userSeq = IF dialect = "postgresql" THEN 2 ELSE 0
    /\ tokens = {}
    /\ blocklist = {}
    /\ txs = {}
    /\ txSeq = 0
    /\ req = [op |-> "register", tok |-> NoToken, data |-> UserData({"n"}, {"b@x.com"}, {"pw"})]
    /\ resp = [status |-> 201, body |-> user_schema_dump(UserB)]
    /\ txsS = {}
    /\ txSeqS = 0
    /\ respS = NoResponse

TokenLoginPayloads ==
    {UserData({}, {"a@x.com"}, {"pw"}), UserData({}, {"a@x.com"}, {"other"})}

NextToken ==
    \/ \E data \in TokenLoginPayloads : Login(data)
    \/ \E tok \in PresentedTokens : Logout(tok)
    \/ \E tok \in PresentedTokens : AddTransaction(tok, BaseAdd)
    \/ \E tok \in PresentedTokens : EditTransaction(tok, 1, BaseEdit)
    \/ \E tok \in PresentedTokens : DeleteTransaction(tok, 1)
    \/ \E tok \in PresentedTokens : GetTransactions(tok, NoQuery)
    \/ \E tok \in PresentedTokens : MonthlySummary(tok, Period({}, {}))
    \/ \E tok \in PresentedTokens : CategoryBreakdown(tok, Period({}, {}))
    \/ Tick

SpecToken == Registered /\ [][NextToken]_vars

\* ------------------------------------------------ SpecTx: the bodies of add and edit
Sep2025 == <<2025, 9>>
Oct2026 == <<2026, 10>>

TxAddPayloads ==
    { BaseAdd,
      [TxData({2}, {"expense"}, {"rent"}) EXCEPT !.note = {"x"}],
      TxData({0}, {"income"}, {"food"}),
      TxData({1}, {"loan"}, {"food"}),
      TxData({1}, {"income"}, {}),
      [BaseAdd EXCEPT !.user_id = {2}] }

TxEditPayloads ==
    { NoData,
      [NoData EXCEPT !.amount = {2}, !.type = {"expense"}, !.note = {"x"}],
      [NoData EXCEPT !.category = {"rent"}, !.date = {isoformat(Sep2025)}],
      [NoData EXCEPT !.amount = {0}, !.note = {"x"}],
      [NoData EXCEPT !.type = {"loan"}, !.category = {"rent"}],
      [NoData EXCEPT !.note = {"x"}, !.user_id = {1}] }

NextTx ==
    \/ \E data \in RegisterPayloads : Register(data)
    \/ \E tok \in tokens, data \in TxAddPayloads : AddTransaction(tok, data)
    \/ \E tok \in tokens, id \in TxIds, data \in TxEditPayloads :
           EditTransaction(tok, id, data)
    \/ \E tok \in tokens, id \in TxIds : DeleteTransaction(tok, id)

SpecTx == LoggedIn /\ [][NextTx]_vars

\* ------------------------------------------- SpecReport: the reads over varied rows
ReportAddPayloads ==
    { TxData({1}, {"income"}, {"food"}),
      TxData({2}, {"income"}, {"food"}),
      TxData({2}, {"expense"}, {"rent"}),
      TxData({2}, {"expense"}, {"food"}),
      [TxData({2}, {"income"}, {"food"}) EXCEPT !.date = {isoformat(Sep2025)}],
      [TxData({1}, {"expense"}, {"food"}) EXCEPT !.date = {isoformat(Oct2026)}] }

ReportPeriods ==
    {Period({}, {}), Period({2025}, {10}), Period({2025}, {9}), Period({2026}, {}),
     Period({}, {9})}

ReportQueries ==
    { NoQuery,
      [NoQuery EXCEPT !.page = {2}, !.per_page = {1}],
      [NoQuery EXCEPT !.type = {"income"}],
      [NoQuery EXCEPT !.start_date = {isoformat(today)}],
      [NoQuery EXCEPT !.page = {1}, !.per_page = {1}],
      [NoQuery EXCEPT !.page = {2}, !.per_page = {1}, !.type = {"income"}],
      [NoQuery EXCEPT !.page = {0}, !.per_page = {0}] }

NextReport ==
    \/ \E tok \in tokens, data \in ReportAddPayloads : AddTransaction(tok, data)
    \/ \E tok \in tokens, id \in TxIds : DeleteTransaction(tok, id)
    \/ \E tok \in tokens, q \in ReportQueries : GetTransactions(tok, q)
    \/ \E tok \in tokens, q \in ReportPeriods : MonthlySummary(tok, q)
    \/ \E tok \in tokens, q \in ReportPeriods : CategoryBreakdown(tok, q)

SpecReport == LoggedIn /\ [][NextReport]_vars

\* ------------------------- SpecNI: two runs that differ in the other users' writes
\* The first run (txs, txSeq, resp) serves every request. The second run
\* (txsS, txSeqS, respS) serves the same requests of the observed user and none
\* of the add / edit / delete requests of anybody else.
Observed == "a@x.com"

NIAdd(tok, data) ==
    /\ AddTransactionStep(tok, data)
    /\ IF tok.sub = Observed
       THEN LET o == add_transaction(txsS, txSeqS, tok, data) IN
            /\ \A t \in o.txs : t.id <= MaxTxId
            /\ txsS' = o.txs /\ txSeqS' = o.txSeq /\ respS' = o.resp
       ELSE UNCHANGED second

NIEdit(tok, id, data) ==
    /\ EditTransactionStep(tok, id, data)
    /\ IF tok.sub = Observed
       THEN LET o == edit_transaction(txsS, txSeqS, tok, id, data) IN
            txsS' = o.txs /\ txSeqS' = o.txSeq /\ respS' = o.resp
       ELSE UNCHANGED second

NIDelete(tok, id) ==
    /\ DeleteTransactionStep(tok, id)
    /\ IF tok.sub = Observed
       THEN LET o == delete_transaction(txsS, txSeqS, tok, id) IN
            txsS' = o.txs /\ txSeqS' = o.txSeq /\ respS' = o.resp
       ELSE UNCHANGED second

NIGetTransactions(tok, q) ==
    /\ GetTransactionsStep(tok, q)
    /\ respS' = IF tok.sub = Observed THEN get_transactions(txsS, tok, q) ELSE respS
    /\ UNCHANGED <<txsS, txSeqS>>

NIMonthlySummary(tok, q) ==
    /\ MonthlySummaryStep(tok, q)
    /\ respS' = IF tok.sub = Observed THEN monthly_summary(txsS, tok, q) ELSE respS
    /\ UNCHANGED <<txsS, txSeqS>>

NICategoryBreakdown(tok, q) ==
    /\ CategoryBreakdownStep(tok, q)
    /\ respS' = IF tok.sub = Observed THEN category_breakdown(txsS, tok, q) ELSE respS
    /\ UNCHANGED <<txsS, txSeqS>>

NIAddPayloads  == {BaseAdd}
NIEditPayloads == {[NoData EXCEPT !.amount = {2}]}
NIQueries      == {NoQuery, [NoQuery EXCEPT !.page = {2}, !.per_page = {1}]}

NextNI ==
    \/ \E tok \in tokens, data \in NIAddPayloads : NIAdd(tok, data)
    \/ \E tok \in tokens, id \in TxIds, data \in NIEditPayloads : NIEdit(tok, id, data)
    \/ \E tok \in tokens, id \in TxIds : NIDelete(tok, id)
    \/ \E tok \in tokens, q \in NIQueries : NIGetTransactions(tok, q)
    \/ \E tok \in tokens : NIMonthlySummary(tok, Period({}, {}))
    \/ \E tok \in tokens : NICategoryBreakdown(tok, Period({}, {}))

SpecNI == LoggedIn /\ [][NextNI]_vars

\* =========================================================== the properties
ProtectedOps == {"logout", "add_transaction", "get_transactions", "edit_transaction",
                 "delete_transaction", "report/monthly", "report/category_breakdown"}
ReadOps      == {"get_transactions", "report/monthly", "report/category_breakdown"}

\* a step that serves a request: every step but the passage of time
Served == now' = now
\* the Revocation List holds a row for the token
HasLoggedOut(tok) == \E r \in blocklist : r.jti = tok.jti
RowsOf(tok, B) == {r \in B : r.jti = tok.jti}

\* C1: once a logout presented with token T has succeeded, T stays revoked, and
\* every later protected request presented with T is answered 401 and changes no
\* row of user, transaction or token_blocklist, whatever happened in between.
C1_RevokedIsTerminal ==
    [][ /\ (Served /\ req'.op = "logout" /\ resp'.status = 200)
              => RowsOf(req'.tok, blocklist') # {}
        /\ \A t \in tokens : HasLoggedOut(t) => HasLoggedOut(t)'
        /\ \A t \in tokens :
              (Served /\ HasLoggedOut(t) /\ req'.tok = t /\ req'.op \in ProtectedOps)
                  => (resp'.status = 401 /\ UNCHANGED stores)
      ]_vars

\* C1 witness: a token that is still within its validity window, whose logout
\* succeeded, is refused on add_transaction although its user has logged in again.
C1_Witness ==
    /\ req.op = "add_transaction" /\ resp.status = 401
    /\ req.tok \in tokens /\ HasLoggedOut(req.tok) /\ now < req.tok.exp
    /\ \E t \in tokens : t.sub = req.tok.sub /\ t.jti > req.tok.jti /\ ~HasLoggedOut(t)

\* C2: a token issued by a successful login is valid at once, and every protected
\* request presented with it before its expiry and before a logout with that same
\* token passes authentication (is not answered 401), whatever other tokens were
\* issued or logged out.
C2_ValidUntilExpiryOrLogout ==
    [][ /\ (Served /\ req'.op = "login" /\ resp'.status = 200)
              => /\ resp'.body.access_token \in tokens' \ tokens
                 /\ now' < resp'.body.access_token.exp
                 /\ RowsOf(resp'.body.access_token, blocklist') = {}
        /\ \A t \in tokens :
              (Served /\ req'.tok = t /\ req'.op \in ProtectedOps
                      /\ now < t.exp /\ ~HasLoggedOut(t))
                  => resp'.status # 401
      ]_vars

\* C2 witness: a token adds a transaction after another token of the same user
\* was logged out.
C2_Witness ==
    /\ req.op = "add_transaction" /\ resp.status = 201
    /\ \E t \in tokens : t.sub = req.tok.sub /\ t # req.tok /\ HasLoggedOut(t)

\* C4 (as claimed): a register whose body is valid and whose email is already
\* stored is answered 400 or 409 and stores no second user.
C4_DuplicateEmailIsConflict ==
    [][ (Served /\ req'.op = "register"
                /\ user_schema_validate(req'.data, {}) = {}
                /\ UserByEmail(Val(req'.data.email)) # {})
            => (resp'.status \in {400, 409} /\ users' = users)
      ]_vars

\* C8 (as claimed): a logout repeated with a token that is within its validity
\* window returns success again and adds a further revocation row for its jti.
C8_RepeatedLogoutSucceeds ==
    [][ (Served /\ req'.op = "logout" /\ req'.tok \in tokens
                /\ HasLoggedOut(req'.tok) /\ now < req'.tok.exp)
            => /\ resp'.status = 200
               /\ Cardinality(RowsOf(req'.tok, blocklist'))
                      = Cardinality(RowsOf(req'.tok, blocklist)) + 1
      ]_vars

\* C8 (amended): a successful logout adds exactly one revocation row, carrying its
\* token's jti; a logout repeated with that token is answered 401 and adds no row.
C8_RepeatedLogoutRejected ==
    [][ /\ (Served /\ req'.op = "logout" /\ resp'.status = 200)
              => /\ RowsOf(req'.tok, blocklist) = {}
                 /\ Cardinality(RowsOf(req'.tok, blocklist')) = 1
                 /\ Cardinality(blocklist') = Cardinality(blocklist) + 1
        /\ (Served /\ req'.op = "logout" /\ req'.tok \in tokens /\ HasLoggedOut(req'.tok))
              => (resp'.status = 401 /\ blocklist' = blocklist)
      ]_vars

\* C8 witness: the second logout with a token still within its validity window.
C8_Witness ==
    /\ req.op = "logout" /\ resp.status = 401
    /\ req.tok \in tokens /\ HasLoggedOut(req.tok) /\ now < req.tok.exp

\* ------------------------------------------------------------ SpecTx claims
\* the user a token authenticates as
Caller(tok) == CHOOSE u \in users : u.email = tok.sub
\* an id no row of the table carries
MissingId == Max({t.id : t \in txs}) + 1
\* the request names a transaction that exists and belongs to another user
NamesForeign == \E t \in txs : t.id = req'.id /\ t.user_id # Caller(req'.tok).user_id

\* C3 (as claimed): edit_transaction and delete_transaction called by an
\* authenticated user with the id of another user's transaction return 404 and
\* leave the table unchanged.
C3_ForeignIdIs404 ==
    [][ (Served /\ req'.op \in {"edit_transaction", "delete_transaction"}
                /\ jwt_required(req'.tok) /\ NamesForeign)
            => (resp'.status = 404 /\ txs' = txs)
      ]_vars

\* C3 (amended): such a call is answered exactly as the same call with an id that
\* does not exist, and leaves the table unchanged: 404 for delete_transaction and
\* for edit_transaction with a body that passes validation, 400 for
\* edit_transaction with a body that fails validation.
C3_ForeignIdAsMissing ==
    [][ /\ (Served /\ req'.op = "edit_transaction" /\ jwt_required(req'.tok) /\ NamesForeign)
              => /\ resp' = edit_transaction(txs, txSeq, req'.tok, MissingId, req'.data).resp
                 /\ resp'.status =
                        IF transaction_schema_validate(req'.data, TRUE) = {} THEN 404 ELSE 400
                 /\ txs' = txs
        /\ (Served /\ req'.op = "delete_transaction" /\ jwt_required(req'.tok) /\ NamesForeign)
              => /\ resp' = delete_transaction(txs, txSeq, req'.tok, MissingId).resp
                 /\ resp'.status = 404
                 /\ txs' = txs
      ]_vars

\* C3 witness: an edit with a valid, non-empty body on another user's transaction
\* was answered 404.
C3_Witness ==
    /\ req.op = "edit_transaction" /\ resp.status = 404
    /\ req.data.amount # {}
    /\ \E t \in txs : t.id = req.id /\ t.user_id # Caller(req.tok).user_id
                      /\ t.amount # Val(req.data.amount)

\* C5: when register, add_transaction or edit_transaction answers 400, no row of
\* any table is created or changed.
C5_NoWriteOnValidationError ==
    [][ (Served /\ req'.op \in {"register", "add_transaction", "edit_transaction"}
                /\ resp'.status = 400)
            => UNCHANGED stores
      ]_vars

\* C5 witness: an edit of the caller's own transaction was answered 400 although
\* it also supplied a valid note different from the stored one.
C5_Witness ==
    /\ req.op = "edit_transaction" /\ resp.status = 400
    /\ req.data.note # {} /\ resp.body.errors = {"amount"}
    /\ \E t \in txs : t.id = req.id /\ t.user_id = Caller(req.tok).user_id
                      /\ t.note # Val(req.data.note)

\* the body supplies an amount below 1 or a type other than income / expense
BadAmountOrType(data) ==
    \/ data.amount # {} /\ Val(data.amount) <= 0
    \/ data.type # {} /\ Val(data.type) \notin {"income", "expense"}

\* C6: every stored transaction has amount > 0, type income or expense and an
\* owner that is a stored user; an authenticated add or edit that supplies an
\* amount <= 0 or another type is answered 400.
C6_TransactionInvariant ==
    /\ \A t \in txs : /\ t.amount > 0
                      /\ t.type \in {"income", "expense"}
                      /\ \E u \in users : u.user_id = t.user_id
    /\ (req.op \in {"add_transaction", "edit_transaction"} /\ BadAmountOrType(req.data)
            /\ resp.status # 401)
         => resp.status = 400

\* C6 witness: an edit of the caller's own transaction supplying amount <= 0 was
\* answered 400.
C6_Witness ==
    /\ req.op = "edit_transaction" /\ resp.status = 400
    /\ req.data.amount # {} /\ Val(req.data.amount) <= 0
    /\ \E t \in txs : t.id = req.id /\ t.user_id = Caller(req.tok).user_id

\* the value a stored field takes from a body
Supplied(data, f) == IF f = "date" THEN CastTimestamp(Val(data[f])) ELSE Val(data[f])
EditableFields == {"amount", "type", "category", "date", "note"}

\* C9: a successful edit_transaction replaces the caller's transaction of that id
\* by one that has the supplied value in every field present in the body, the old
\* value in every other field, the same id and the same owner; every other row is
\* unchanged, and no edit, successful or not, adds, removes or re-owns a row.
C9_EditFrame ==
    [][ /\ (Served /\ req'.op = "edit_transaction" /\ resp'.status = 200)
              => \E t \in txs : \E e \in txs' :
                    /\ t.id = req'.id /\ t.user_id = Caller(req'.tok).user_id
                    /\ txs' = (txs \ {t}) \cup {e}
                    /\ e.id = t.id /\ e.user_id = t.user_id
                    /\ \A f \in EditableFields :
                          e[f] = IF req'.data[f] # {} THEN Supplied(req'.data, f) ELSE t[f]
        /\ (Served /\ req'.op = "edit_transaction")
              => {<<t.id, t.user_id>> : t \in txs'} = {<<t.id, t.user_id>> : t \in txs}
      ]_vars

\* C9 witness: with two rows stored, an edit that supplied category and date but
\* neither amount nor note succeeded on a row whose amount and note are not the
\* values a new row gets.
C9_Witness ==
    /\ req.op = "edit_transaction" /\ resp.status = 200
    /\ Cardinality(txs) = 2
    /\ req.data.category # {} /\ req.data.date # {}
    /\ req.data.amount = {} /\ req.data.note = {}
    /\ resp.body.note = "x" /\ resp.body.amount = 2
    /\ resp.body.category = Val(req.data.category) /\ resp.body.date = Val(req.data.date)

\* ------------------------------------------------------ the reads (C7, C10)
\* the rows of the table that belong to a user
Own(uid) == {t \in txs : t.user_id = uid}

\* C7 (as claimed): in two runs that differ only in the adds, edits and deletes of
\* the other users, every read of the observed user returns the same result.
C7_SameInBothRuns ==
    (req.op \in ReadOps /\ req.tok.sub = Observed) => resp = respS

\* C7 (amended): every successful read is computed from the caller's own rows
\* alone: it returns what the same read returns on a table from which the rows of
\* all other users are removed.
C7_ReadsUseOwnRowsOnly ==
    /\ (req.op = "get_transactions" /\ resp.status = 200)
          => resp = get_transactions(Own(Caller(req.tok).user_id), req.tok, req.q)
    /\ (req.op = "report/monthly" /\ resp.status = 200)
          => resp = monthly_summary(Own(Caller(req.tok).user_id), req.tok, req.q)
    /\ (req.op = "report/category_breakdown" /\ resp.status = 200)
          => resp = category_breakdown(Own(Caller(req.tok).user_id), req.tok, req.q)

\* C7 witness: a listing returned a row of the caller while another user's row of
\* the same type, category and period is stored.
C7_Witness ==
    /\ req.op = "get_transactions" /\ resp.status = 200
    /\ Len(resp.body.transactions) = 1
    /\ \E t \in txs : /\ t.user_id # Caller(req.tok).user_id
                      /\ t.type = resp.body.transactions[1].type
                      /\ t.category = resp.body.transactions[1].category
                      /\ isoformat(t.date) = resp.body.transactions[1].date

\* the amount the row of this id contributes to a user's total of a type and month
AmountAt(id, uid, type, year, month) ==
    LET S == {t \in txs : /\ t.id = id /\ t.user_id = uid /\ t.type = type
                          /\ t.date = <<year, month>>}
    IN IF S = {} THEN 0 ELSE (CHOOSE t \in S : TRUE).amount

RECURSIVE TotalUpTo(_, _, _, _, _)
TotalUpTo(n, uid, type, year, month) ==
    IF n = 0 THEN 0
    ELSE AmountAt(n, uid, type, year, month) + TotalUpTo(n - 1, uid, type, year, month)

\* C10: report/monthly returns income = the sum of the amounts of the caller's
\* income transactions dated in the year and month asked for, expense = the same
\* for expense, balance = income - expense; all three are 0 when the caller has no
\* transaction in that period.
C10_MonthlySummary ==
    (req.op = "report/monthly" /\ resp.status = 200)
        => LET uid     == Caller(req.tok).user_id
               year    == YearOf(req.q)
               month   == MonthOf(req.q)
               last    == Max({t.id : t \in txs})
               income  == TotalUpTo(last, uid, "income", year, month)
               expense == TotalUpTo(last, uid, "expense", year, month)
           IN /\ resp.body.income = income
              /\ resp.body.expense = expense
              /\ resp.body.balance = income - expense
              /\ (\A t \in txs : t.user_id = uid => t.date # <<year, month>>)
                    => (resp.body.income = 0 /\ resp.body.expense = 0 /\ resp.body.balance = 0)

\* C10 witness: a summary with income and a negative balance, for an explicit year
\* and month.
C10_Witness ==
    /\ req.op = "report/monthly" /\ resp.status = 200
    /\ req.q.year # {} /\ req.q.month # {}
    /\ resp.body.income = 1 /\ resp.body.expense = 2 /\ resp.body.balance = -1

\* the page and the page size a listing request asks for
PageOf(q) == IF q.page = {} THEN 1 ELSE Val(q.page)
SizeOf(q) == IF q.per_page = {} THEN DefaultPerPage ELSE Val(q.per_page)
\* the user's rows that pass every filter the query string carries
Matching(uid, q) ==
    {t \in txs :
        /\ t.user_id = uid
        /\ \A f \in {"type", "category"} : q[f] # {} => t[f] = Val(q[f])
        /\ q.start_date # {} => DateLE(Val(q.start_date).str, t.date)
        /\ q.end_date # {} => DateLE(t.date, Val(q.end_date).str)}
\* the query string's date filters are values the database accepts
DatesBind(q) == (q.start_date = {} /\ q.end_date = {}) \/ dialect = "postgresql"

C11_BeyondLast ==
    /\ req.op = "get_transactions" /\ resp.status = 200
    /\ PageOf(req.q) = 2 /\ SizeOf(req.q) = 1
    /\ resp.body.total = 1 /\ resp.body.pages = 1
    /\ resp.body.transactions = <<>>

\* the amount the row of this id adds to a user's total of a category and month,
\* whatever its type
CategoryAmountAt(id, uid, category, year, month) ==
    LET S == {t \in txs : /\ t.id = id /\ t.user_id = uid /\ t.category = category
                          /\ t.date = <<year, month>>}
    IN IF S = {} THEN 0 ELSE (CHOOSE t \in S : TRUE).amount

RECURSIVE CategoryTotalUpTo(_, _, _, _, _)
CategoryTotalUpTo(n, uid, category, year, month) ==
    IF n = 0 THEN 0
    ELSE CategoryAmountAt(n, uid, category, year, month)
             + CategoryTotalUpTo(n - 1, uid, category, year, month)

====
